---- MODULE Spec2Model ----
(***************************************************************************)
(* A model of pymarc's Record (src/pymarc/record.py): the field list and   *)
(* its insertion policies, the MARC 21 encoder as_marc and the decoder     *)
(* decode_marc.                                                            *)
(*                                                                         *)
(* Python values are modelled as follows.  A str is a sequence of code     *)
(* points, a bytes object a sequence of integers 0..255.  An operation     *)
(* that may raise returns a record whose err field names the exception     *)
(* ("none" when it returns normally).                                      *)
(***************************************************************************)
EXTENDS Integers, Sequences, FiniteSets, TLC

VARIABLES
    leader,      \* self.leader
    fields,      \* self.fields
    force_utf8,  \* self.force_utf8
    marc,        \* a buffer of bytes received, the argument of decode_marc
    edits,       \* how many times the buffer was damaged on its way
    result,      \* what the last call returned or raised
    op           \* the last call

vars == <<leader, fields, force_utf8, marc, edits, result, op>>

(***************************************************************************)
(* Constants imported by record.py.                                        *)
(***************************************************************************)
LEADER_LEN == 24
DIRECTORY_ENTRY_LEN == 12
END_OF_RECORD == 29
END_OF_FIELD == 30
SUBFIELD_INDICATOR == 31

(***************************************************************************)
(* Python built-ins used by the code.                                      *)
(***************************************************************************)
Min(a, b) == IF a < b THEN a ELSE b

Max(a, b) == IF a < b THEN b ELSE a

\* s[a:b] for a sequence s, negative indices counted from the end.
PySlice(s, a, b) ==
    LET n  == Len(s)
        lo == IF a < 0 THEN Max(a + n, 0) ELSE Min(a, n)
        hi == IF b < 0 THEN Max(b + n, 0) ELSE Min(b, n)
    IN  IF lo >= hi THEN <<>> ELSE SubSeq(s, lo + 1, hi)

\* s[a:]
PyFrom(s, a) == PySlice(s, a, Len(s))

\* k copies of b
Fill(k, b) == [i \in 1..k |-> b]

\* str.isdigit() on the modelled alphabet (code points below 256, where the
\* only characters isdigit accepts that int rejects are U+00B2, U+00B3, U+00B9).
IsDigitChar(c) == c >= 48 /\ c <= 57

isdigit(s) == Len(s) > 0 /\ \A i \in 1..Len(s) : IsDigitChar(s[i])

\* the decimal digits of n >= 0, most significant first
RECURSIVE Digits(_)
Digits(n) == IF n < 10 THEN <<48 + n>> ELSE Digits(n \div 10) \o <<48 + (n % 10)>>

\* "%0<w>d" % n : at least w characters, zero padded, never truncated
FormatD(w, n) ==
    LET body == Digits(IF n < 0 THEN -n ELSE n)
        sign == IF n < 0 THEN <<45>> ELSE <<>>
        pad  == Max(w - Len(body) - Len(sign), 0)
    IN  sign \o Fill(pad, 48) \o body

\* "%0<w>s" % s : at least w characters, padded with spaces on the left
FormatS(w, s) == Fill(Max(w - Len(s), 0), 32) \o s

\* the value of a sequence of decimal digits
RECURSIVE DigitsValue(_)
DigitsValue(s) ==
    IF Len(s) = 0 THEN 0
    ELSE 10 * DigitsValue(SubSeq(s, 1, Len(s) - 1)) + (s[Len(s)] - 48)

\* lexicographic s < t on strings (code point order)
RECURSIVE StrLess(_, _)
StrLess(s, t) ==
    IF Len(t) = 0 THEN FALSE
    ELSE IF Len(s) = 0 THEN TRUE
    ELSE IF s[1] # t[1] THEN s[1] < t[1]
    ELSE StrLess(Tail(s), Tail(t))

(***************************************************************************)
(* str.encode(encoding).  The result is [err, bytes].                      *)
(***************************************************************************)
Utf8Char(c) ==
    IF c < 128 THEN <<c>>
    ELSE IF c < 2048 THEN <<192 + (c \div 64), 128 + (c % 64)>>
    ELSE IF c < 65536
         THEN <<224 + (c \div 4096), 128 + ((c \div 64) % 64), 128 + (c % 64)>>
    ELSE <<240 + (c \div 262144), 128 + ((c \div 4096) % 64),
           128 + ((c \div 64) % 64), 128 + (c % 64)>>

\* by halves, so that long strings need no deep recursion
RECURSIVE Utf8Bytes(_)
Utf8Bytes(s) ==
    IF Len(s) = 0 THEN <<>>
    ELSE IF Len(s) = 1 THEN Utf8Char(s[1])
    ELSE LET h == Len(s) \div 2
         IN  Utf8Bytes(SubSeq(s, 1, h)) \o Utf8Bytes(SubSeq(s, h + 1, Len(s)))

IsAscii(s) == \A i \in 1..Len(s) : s[i] < 128

Encode(s, encoding) ==
    IF encoding = "utf-8"
    THEN [err |-> "none", bytes |-> IF IsAscii(s) THEN s ELSE Utf8Bytes(s)]
    ELSE IF \A i \in 1..Len(s) : s[i] < 256
         THEN [err |-> "none", bytes |-> s]
         ELSE [err |-> "UnicodeEncodeError", bytes |-> <<>>]

(***************************************************************************)
(* Field (pymarc.field).                                                   *)
(***************************************************************************)
\* Field.is_control_field()
is_control_field(f) == StrLess(f.tag, <<48, 49, 48>>) /\ isdigit(f.tag)

ControlField(tag, data) ==
    [tag |-> tag, data |-> data, indicators |-> <<>>, subfields |-> <<>>]

DataField(tag, indicators, subfields) ==
    [tag |-> tag, data |-> <<>>, indicators |-> indicators, subfields |-> subfields]

\* the text a data field serializes: ind1 ind2 (0x1F code value)*
RECURSIVE SubfieldsText(_)
SubfieldsText(subs) ==
    IF Len(subs) = 0 THEN <<>>
    ELSE <<SUBFIELD_INDICATOR>> \o subs[1][1] \o subs[1][2] \o SubfieldsText(Tail(subs))

\* Field.as_marc(encoding)
FieldAsMarc(f, encoding) ==
    LET text == IF is_control_field(f)
                THEN f.data
                ELSE f.indicators[1] \o f.indicators[2] \o SubfieldsText(f.subfields)
        e    == Encode(text \o <<END_OF_FIELD>>, encoding)
    IN  e

(***************************************************************************)
(* The Field objects.  A field list holds references to Field objects: a   *)
(* reference is a name, and Heap gives the object of each name.  No        *)
(* operation of Record changes a Field object.                             *)
(***************************************************************************)
Tag(a, b, c) == <<48 + a, 48 + b, 48 + c>>

\* "ocm12345"
Ocm12345 == <<111, 99, 109, 49, 50, 51, 52, 53>>

F001 == ControlField(Tag(0, 0, 1), Ocm12345)

F008 == ControlField(Tag(0, 0, 8), <<57, 57>>)

\* 245 10 $a Hello $b World /
F245 == DataField(Tag(2, 4, 5), <<<<49>>, <<48>>>>,
                  << <<<<97>>, <<72, 101, 108, 108, 111, 32>>>>,
                     <<<<98>>, <<87, 111, 114, 108, 100, 32, 47>>>> >>)

F100 == DataField(Tag(1, 0, 0), <<<<49>>, <<32>>>>, << <<<<97>>, <<88>>>> >>)

F110 == DataField(Tag(1, 1, 0), <<<<50>>, <<32>>>>, << <<<<97>>, <<89>>>> >>)

\* 650 with a subfield value U+00E1: one byte in Latin-1, two in UTF-8
F650 == DataField(Tag(6, 5, 0), <<<<32>>, <<48>>>>, << <<<<97>>, <<225>>>> >>)

\* a field with the non-digit two-character tag "ab"
Fab == DataField(<<97, 98>>, <<<<32>>, <<32>>>>, << <<<<97>>, <<90>>>> >>)

\* control fields of 9998, 9999 and 99990 characters: serialized with their
\* terminator they take 9999 bytes (the most four digits hold), 10000 bytes
\* and 99991 bytes (a record of more than 99999 bytes)
F003_9998 == ControlField(Tag(0, 0, 3), Fill(9998, 65))

F005_9999 == ControlField(Tag(0, 0, 5), Fill(9999, 65))

F006_99990 == ControlField(Tag(0, 0, 6), Fill(99990, 65))

Heap ==
    [f001 |-> F001, f008 |-> F008, f100 |-> F100, f110 |-> F110, f245 |-> F245,
     f650 |-> F650, fab |-> Fab, f003_9998 |-> F003_9998, f005_9999 |-> F005_9999,
     f006_99990 |-> F006_99990]

\* the Field object a reference names
Obj(ref) == Heap[ref]

\* the Field objects of a list of references
Objs(refs) == [k \in 1..Len(refs) |-> Obj(refs[k])]

(***************************************************************************)
(* Record.as_marc                                                          *)
(***************************************************************************)
\* the encoding as_marc chooses
AsMarcEncoding(ldr, utf8) == IF ldr[10] = 97 \/ utf8 THEN "utf-8" ELSE "iso8859-1"

\* the tag of a directory entry
DirectoryTag(tag, encoding) ==
    IF isdigit(tag)
    THEN Encode(FormatD(3, DigitsValue(tag)), encoding)
    ELSE Encode(FormatS(3, tag), encoding)

\* the length and offset of a directory entry
DirectoryLenOff(len, offset) == FormatD(4, len) \o FormatD(5, offset)

\* The loop over self.fields: the state after the first k fields,
\* [err, fields, directory, offset].
RECURSIVE AsMarcLoop(_, _, _)
AsMarcLoop(flds, k, encoding) ==
    IF k = 0
    THEN [err |-> "none", fields |-> <<>>, directory |-> <<>>, offset |-> 0]
    ELSE LET prev == AsMarcLoop(flds, k - 1, encoding)
             fd   == FieldAsMarc(Obj(flds[k]), encoding)
             tg   == DirectoryTag(Obj(flds[k]).tag, encoding)
         IN  IF prev.err # "none" THEN prev
             ELSE IF fd.err # "none" THEN [prev EXCEPT !.err = fd.err]
             ELSE IF tg.err # "none" THEN [prev EXCEPT !.err = tg.err]
             ELSE [err       |-> "none",
                   fields    |-> prev.fields \o fd.bytes,
                   directory |-> prev.directory \o tg.bytes
                                   \o DirectoryLenOff(Len(fd.bytes), prev.offset),
                   offset    |-> prev.offset + Len(fd.bytes)]

\* the leader left as it is stored: length and base address not rewritten
AsMarcLeader_NotRewritten(ldr, record_length, base_address) == ldr

\* the leader as_marc writes
AsMarcLeader(ldr, record_length, base_address) ==
    FormatD(5, record_length) \o PySlice(ldr, 5, 12)
        \o FormatD(5, base_address) \o PyFrom(ldr, 17)

\* Record.as_marc(): [err, bytes]
as_marc(ldr, flds, utf8) ==
    LET encoding      == AsMarcEncoding(ldr, utf8)
        loop          == AsMarcLoop(flds, Len(flds), encoding)
        directory     == loop.directory \o <<END_OF_FIELD>>
        fieldbytes    == loop.fields \o <<END_OF_RECORD>>
        base_address  == LEADER_LEN + Len(directory)
        record_length == base_address + Len(fieldbytes)
        strleader     == Encode(AsMarcLeader(ldr, record_length, base_address), encoding)
    IN  IF loop.err # "none" THEN [err |-> loop.err, bytes |-> <<>>]
        ELSE IF strleader.err # "none" THEN [err |-> strleader.err, bytes |-> <<>>]
        ELSE [err |-> "none", bytes |-> strleader.bytes \o directory \o fieldbytes]

(***************************************************************************)
(* bytes.decode(encoding, errors) and int().  The results are [err, text]  *)
(* and [err, val].                                                         *)
(***************************************************************************)
IsCont(b) == b >= 128 /\ b <= 191

\* The UTF-8 sequence at the head of b: [len, cp], the number of bytes it
\* takes and its code point, cp = -1 when the len bytes are malformed (len is
\* then what one replacement character stands for).
Utf8Head(b) ==
    LET b1 == b[1]
        n  == Len(b)
        lo2 == IF b1 = 224 THEN 160 ELSE IF b1 = 240 THEN 144 ELSE 128
        hi2 == IF b1 = 237 THEN 159 ELSE IF b1 = 244 THEN 143 ELSE 191
        need == IF b1 < 224 THEN 2 ELSE IF b1 < 240 THEN 3 ELSE 4
        ok2 == n >= 2 /\ b[2] >= lo2 /\ b[2] <= hi2
        ok3 == ok2 /\ n >= 3 /\ IsCont(b[3])
        ok4 == ok3 /\ n >= 4 /\ IsCont(b[4])
    IN  IF b1 < 128 THEN [len |-> 1, cp |-> b1]
        ELSE IF b1 < 194 \/ b1 > 244 THEN [len |-> 1, cp |-> -1]
        ELSE IF ~ok2 THEN [len |-> 1, cp |-> -1]
        ELSE IF need = 2 THEN [len |-> 2, cp |-> (b1 - 192) * 64 + (b[2] - 128)]
        ELSE IF ~ok3 THEN [len |-> 2, cp |-> -1]
        ELSE IF need = 3
             THEN [len |-> 3, cp |-> (b1 - 224) * 4096 + (b[2] - 128) * 64 + (b[3] - 128)]
        ELSE IF ~ok4 THEN [len |-> 3, cp |-> -1]
        ELSE [len |-> 4,
              cp  |-> (b1 - 240) * 262144 + (b[2] - 128) * 4096
                        + (b[3] - 128) * 64 + (b[4] - 128)]

RECURSIVE Utf8Decode(_, _)
Utf8Decode(b, errors) ==
    IF Len(b) = 0 THEN [err |-> "none", text |-> <<>>]
    ELSE LET h    == Utf8Head(b)
             rest == Utf8Decode(PyFrom(b, h.len), errors)
         IN  IF h.cp >= 0
             THEN [rest EXCEPT !.text = <<h.cp>> \o rest.text]
             ELSE IF errors = "strict" THEN [err |-> "UnicodeDecodeError", text |-> <<>>]
             ELSE IF errors = "replace" THEN [rest EXCEPT !.text = <<65533>> \o rest.text]
             ELSE rest

\* bytes.decode(encoding, errors) for "ascii", "utf-8" and "iso8859-1"
Decode(b, encoding, errors) ==
    IF IsAscii(b) THEN [err |-> "none", text |-> b]
    ELSE IF encoding = "utf-8" THEN Utf8Decode(b, errors)
    ELSE IF encoding = "iso8859-1" THEN [err |-> "none", text |-> b]
    ELSE [err |-> "UnicodeDecodeError", text |-> <<>>]

\* the characters int() strips from a bytes object or a str of ASCII
IntSpace == {9, 10, 11, 12, 13, 32}

RECURSIVE LStrip(_)
LStrip(s) == IF Len(s) > 0 /\ s[1] \in IntSpace THEN LStrip(Tail(s)) ELSE s

RECURSIVE RStrip(_)
RStrip(s) ==
    IF Len(s) > 0 /\ s[Len(s)] \in IntSpace THEN RStrip(SubSeq(s, 1, Len(s) - 1)) ELSE s

\* digits, with single underscores between digits allowed
IsIntBody(s) ==
    /\ Len(s) > 0
    /\ \A i \in 1..Len(s) :
          \/ IsDigitChar(s[i])
          \/ s[i] = 95 /\ i > 1 /\ i < Len(s) /\ IsDigitChar(s[i - 1]) /\ IsDigitChar(s[i + 1])

RECURSIVE IntBodyValue(_)
IntBodyValue(s) ==
    IF Len(s) = 0 THEN 0
    ELSE IF s[Len(s)] = 95 THEN IntBodyValue(SubSeq(s, 1, Len(s) - 1))
    ELSE 10 * IntBodyValue(SubSeq(s, 1, Len(s) - 1)) + (s[Len(s)] - 48)

\* int(s) for a bytes object or a str of ASCII
PyInt(s) ==
    LET t    == RStrip(LStrip(s))
        neg  == Len(t) > 0 /\ t[1] = 45
        body == IF Len(t) > 0 /\ t[1] \in {43, 45} THEN Tail(t) ELSE t
    IN  IF IsIntBody(body)
        THEN [err |-> "none", val |-> IF neg THEN -IntBodyValue(body) ELSE IntBodyValue(body)]
        ELSE [err |-> "ValueError", val |-> 0]

\* bytes.split(sep) for a one-byte separator
RECURSIVE Split(_, _)
Split(b, sep) ==
    IF \A i \in 1..Len(b) : b[i] # sep THEN <<b>>
    ELSE LET i == CHOOSE k \in 1..Len(b) : b[k] = sep /\ \A j \in 1..(k - 1) : b[j] # sep
         IN  <<SubSeq(b, 1, i - 1)>> \o Split(PyFrom(b, i), sep)

(***************************************************************************)
(* marc8_to_unicode and unicodedata.normalize, on the bytes and characters *)
(* of the model's inputs: ASCII, the ANSEL bytes A1, C3 and E1, and the    *)
(* characters U+00A1, U+00C3, U+00E1.                                      *)
(***************************************************************************)
\* the combining character of an ANSEL byte, 0 when the byte is no diacritic
AnselCombining(b) == IF b = 225 THEN 769 ELSE 0

\* the character of a byte in the default state (G0 ASCII, G1 ANSEL)
Marc8Char(b) ==
    IF b < 128 THEN b
    ELSE IF b = 161 THEN 321
    ELSE IF b = 195 THEN 169
    ELSE 65533

\* canonical composition of a base character and one combining character
Compose(base, comb) ==
    IF base = 97 /\ comb = 769 THEN <<225>> ELSE <<base, comb>>

\* A diacritic precedes its base character in MARC-8 and follows it in
\* Unicode; pending holds the diacritics read and not yet placed.
RECURSIVE Marc8Loop(_, _)
Marc8Loop(b, pending) ==
    IF Len(b) = 0 THEN <<>>
    ELSE IF AnselCombining(b[1]) # 0
         THEN Marc8Loop(Tail(b), pending \o <<AnselCombining(b[1])>>)
    ELSE (IF Len(pending) = 1
          THEN Compose(Marc8Char(b[1]), pending[1])
          ELSE <<Marc8Char(b[1])>> \o pending) \o Marc8Loop(Tail(b), <<>>)

\* marc8_to_unicode(data)
marc8_to_unicode(b) == IF IsAscii(b) THEN b ELSE Marc8Loop(b, <<>>)

\* unicodedata.normalize("NFKD", text)
NfkdChar(c) ==
    IF c = 225 THEN <<97, 769>>
    ELSE IF c = 195 THEN <<65, 771>>
    ELSE <<c>>

RECURSIVE Nfkd(_)
Nfkd(t) == IF Len(t) = 0 THEN <<>> ELSE NfkdChar(t[1]) \o Nfkd(Tail(t))

\* text.encode("ascii", "ignore").decode("ascii")
RECURSIVE AsciiOnly(_)
AsciiOnly(t) ==
    IF Len(t) = 0 THEN <<>>
    ELSE (IF t[1] < 128 THEN <<t[1]>> ELSE <<>>) \o AsciiOnly(Tail(t))

\* normalize_subfield_code after its try block: u is the outcome of
\* subfield.decode("utf-8"); the text is the Latin-1 reading when that failed
NormalizeDecoded(subfield, u) ==
    LET text == IF u.err = "none" THEN u.text ELSE subfield
        skip == IF u.err = "none" THEN Len(Utf8Char(u.text[1])) ELSE 1
        without_diacritics == AsciiOnly(Nfkd(text))
    IN  IF Len(without_diacritics) = 0
        THEN [err |-> "IndexError", code |-> <<>>, skip_bytes |-> skip]
        ELSE [err |-> "none", code |-> <<without_diacritics[1]>>, skip_bytes |-> skip]

\* normalize_subfield_code(subfield): [err, code, skip_bytes]
normalize_subfield_code(subfield) ==
    NormalizeDecoded(subfield, Utf8Decode(subfield, "strict"))

(***************************************************************************)
(* Record.decode_marc                                                      *)
(***************************************************************************)
\* a single indicator taken as the second one
DecodeIndicators_OneIsSecond(t) ==
    IF Len(t) = 0 THEN <<<<32>>, <<32>>>>
    ELSE IF Len(t) = 1 THEN <<<<32>>, <<t[1]>>>>
    ELSE <<<<t[1]>>, <<t[2]>>>>

\* the two indicators taken from the text before the first subfield
DecodeIndicators(t) ==
    IF Len(t) = 0 THEN <<<<32>>, <<32>>>>
    ELSE IF Len(t) = 1 THEN <<<<t[1]>>, <<32>>>>
    ELSE <<<<t[1]>>, <<t[2]>>>>

\* the value of a subfield: c holds the arguments of decode_marc, the
\* encoding chosen from the leader and self.force_utf8, and the leader's
\* byte 9
DecodeValue(data, c) ==
    IF ~c.to_unicode THEN [err |-> "none", text |-> data]
    ELSE IF c.leader9 = 97 \/ c.force_utf8 THEN Decode(data, "utf-8", c.utf8_handling)
    ELSE IF c.encoding = "iso8859-1" THEN [err |-> "none", text |-> marc8_to_unicode(data)]
    ELSE Decode(data, c.encoding, "strict")

\* the decoder DecodeValue calls: "raw" for none, "marc8" for marc8_to_unicode
ValueCharset(c) ==
    IF ~c.to_unicode THEN "raw"
    ELSE IF c.leader9 = 97 \/ c.force_utf8 THEN "utf-8"
    ELSE IF c.encoding = "iso8859-1" THEN "marc8"
    ELSE c.encoding

\* the decoder called on the data of a control field
ControlCharset(c) == IF c.to_unicode THEN c.encoding ELSE "raw"

\* a subfield whose code was read: [err, sub] with sub = <<code, value>>
DecodeCoded(norm, v) ==
    IF norm.err # "none" THEN [err |-> norm.err, sub |-> <<>>]
    ELSE IF v.err # "none" THEN [err |-> v.err, sub |-> <<>>]
    ELSE [err |-> "none", sub |-> <<norm.code, v.text>>]

\* the code of a subfield chunk and the bytes it takes
SubfieldCode(subfield) ==
    IF IsAscii(PySlice(subfield, 0, 1))
    THEN [err |-> "none", code |-> PySlice(subfield, 0, 1), skip_bytes |-> 1]
    ELSE normalize_subfield_code(subfield)

\* the value read from the whole chunk, its code included
SubfieldValue_CodeKept(subfield, skip_bytes, c) == DecodeValue(subfield, c)

\* the value of a subfield chunk whose code takes skip_bytes
SubfieldValue(subfield, skip_bytes, c) == DecodeValue(PyFrom(subfield, skip_bytes), c)

\* one subfield chunk, not empty
DecodeSubfieldFrom(subfield, norm, c) ==
    DecodeCoded(norm, SubfieldValue(subfield, norm.skip_bytes, c))

DecodeSubfield(subfield, c) == DecodeSubfieldFrom(subfield, SubfieldCode(subfield), c)

\* the subfields read so far and the one read now
AppendSubfield(d, rest) ==
    IF d.err # "none" THEN [err |-> d.err, subfields |-> <<>>]
    ELSE IF rest.err # "none" THEN rest
    ELSE [err |-> "none", subfields |-> <<d.sub>> \o rest.subfields]

\* the loop over subs[1:]: [err, subfields]; the first subfield that fails
\* ends it
RECURSIVE DecodeSubfields(_, _)
DecodeSubfields(subs, c) ==
    IF Len(subs) = 0 THEN [err |-> "none", subfields |-> <<>>]
    ELSE IF Len(subs[1]) = 0 THEN DecodeSubfields(Tail(subs), c)
    ELSE AppendSubfield(DecodeSubfield(subs[1], c), DecodeSubfields(Tail(subs), c))

\* what decode_marc gives for an entry that raises e
EntryFails(e) == [err |-> e, field |-> ControlField(<<>>, <<>>), charsets |-> {}]

\* a control field, control the outcome of decoding its data
DecodeControl(entry_tag, control, c) ==
    IF control.err # "none" THEN EntryFails(control.err)
    ELSE [err      |-> "none",
          field    |-> ControlField(entry_tag, control.text),
          charsets |-> {ControlCharset(c)}]

\* a data field, subs0 the outcome of decoding the indicators and subfields
\* the outcome of the loop over the subfields
DecodeData(entry_tag, subs0, subfields, c) ==
    IF subs0.err # "none" THEN EntryFails(subs0.err)
    ELSE IF subfields.err # "none" THEN EntryFails(subfields.err)
    ELSE [err      |-> "none",
          field    |-> DataField(entry_tag, DecodeIndicators(subs0.text),
                                 subfields.subfields),
          charsets |-> IF Len(subfields.subfields) > 0 THEN {ValueCharset(c)} ELSE {}]

\* the data field of the chunks subs of entry_data.split(SUBFIELD_INDICATOR)
DecodeSplit(entry_tag, subs, c) ==
    DecodeData(entry_tag, Decode(subs[1], "ascii", "strict"),
               DecodeSubfields(Tail(subs), c), c)

\* the field of an entry with its bytes entry_data
DecodeField(entry_tag, entry_data, c) ==
    IF StrLess(entry_tag, <<48, 49, 48>>) /\ isdigit(entry_tag)
    THEN DecodeControl(entry_tag,
                       IF c.to_unicode
                       THEN Decode(entry_data, c.encoding, "strict")
                       ELSE [err |-> "none", text |-> entry_data],
                       c)
    ELSE DecodeSplit(entry_tag, Split(entry_data, SUBFIELD_INDICATOR), c)

\* the field of an entry whose length and offset were passed to int()
DecodeSized(m, entry_tag, entry_length, entry_offset, base_address, c) ==
    IF entry_length.err # "none" THEN EntryFails(entry_length.err)
    ELSE IF entry_offset.err # "none" THEN EntryFails(entry_offset.err)
    ELSE DecodeField(entry_tag,
                     PySlice(m, base_address + entry_offset.val,
                             base_address + entry_offset.val + entry_length.val - 1),
                     c)

\* The field of one directory entry: [err, field, charsets], charsets the
\* decoders called on the field's text.
DecodeEntry(m, entry, base_address, c) ==
    DecodeSized(m, PySlice(entry, 0, 3), PyInt(PySlice(entry, 3, 7)),
                PyInt(PySlice(entry, 7, 12)), base_address, c)

\* the fields read so far and the one read now
AppendField(prev, e) ==
    IF e.err # "none" THEN [prev EXCEPT !.err = e.err]
    ELSE [prev EXCEPT !.fields = Append(prev.fields, e.field),
                      !.charsets = Append(prev.charsets, e.charsets)]

\* the k-th entry of the directory
NthEntry(directory, k) ==
    PySlice(directory, (k - 1) * DIRECTORY_ENTRY_LEN, k * DIRECTORY_ENTRY_LEN)

\* The while loop over the directory, from the state prev after k - 1 entries
\* to the state after field_total entries: [err, fields, charsets].  The
\* fields added before a failing entry stay in the record.
RECURSIVE DecodeLoop(_, _, _, _, _, _)
DecodeLoop(m, directory, base_address, k, c, prev) ==
    IF prev.err # "none" \/ k * DIRECTORY_ENTRY_LEN > Len(directory) THEN prev
    ELSE DecodeLoop(m, directory, base_address, k + 1, c,
                    AppendField(prev, DecodeEntry(m, NthEntry(directory, k), base_address, c)))

\* what decode_marc gives when it raises e with the leader ldr
DecodeFails(e, ldr) == [err |-> e, leader |-> ldr, fields |-> <<>>, charsets |-> <<>>]

\* lines 287-375: the fields and the check of their number
DecodeFields(ldr, field_total, loop) ==
    IF loop.err # "none" THEN [loop EXCEPT !.leader = ldr]
    ELSE IF field_total = 0 THEN DecodeFails("NoFieldsFound", ldr)
    ELSE [loop EXCEPT !.leader = ldr]

\* lines 280-285: the directory, dir the outcome of decoding it
DecodeDirectory(ldr, m, base_address, c, dir) ==
    IF dir.err # "none" THEN DecodeFails(dir.err, ldr)
    ELSE IF Len(dir.text) % DIRECTORY_ENTRY_LEN # 0
         THEN DecodeFails("RecordDirectoryInvalid", ldr)
    ELSE DecodeFields(ldr, Len(dir.text) \div DIRECTORY_ENTRY_LEN,
                      DecodeLoop(m, dir.text, base_address, 1, c,
                                 DecodeFails("none", ldr)))

\* lines 275-276: the declared length, declared the outcome of int(leader[:5])
DecodeLength(ldr, m, base_address, c, declared) ==
    IF declared.err # "none" THEN DecodeFails(declared.err, ldr)
    ELSE IF Len(m) < declared.val THEN DecodeFails("TruncatedRecord", ldr)
    ELSE DecodeDirectory(ldr, m, base_address, c,
                         Decode(PySlice(m, LEADER_LEN, base_address - 1), "ascii", "strict"))

\* lines 270-274: the base address, base the outcome of int(marc[12:17])
DecodeBase(ldr, m, c, base) ==
    IF base.err # "none" THEN DecodeFails(base.err, ldr)
    ELSE IF base.val <= 0 THEN DecodeFails("BaseAddressNotFound", ldr)
    ELSE IF base.val >= Len(m) THEN DecodeFails("BaseAddressInvalid", ldr)
    ELSE DecodeLength(ldr, m, base.val, c, PyInt(PySlice(ldr, 0, 5)))

\* lines 266-267 and the arguments the loop reads: a holds the arguments
\* [to_unicode, force_utf8, utf8_handling, encoding] of decode_marc
DecodeContext(ldr, self_utf8, a) ==
    [to_unicode    |-> a.to_unicode,
     force_utf8    |-> a.force_utf8,
     utf8_handling |-> a.utf8_handling,
     encoding      |-> IF ldr[10] = 97 \/ self_utf8 THEN "utf-8" ELSE a.encoding,
     leader9       |-> ldr[10]]

\* lines 262-264: the leader, lead the outcome of decoding marc[0:LEADER_LEN];
\* self.leader is assigned only when that did not raise
DecodeLeader(ldr0, self_utf8, m, a, lead) ==
    IF lead.err # "none" THEN DecodeFails(lead.err, ldr0)
    ELSE IF Len(lead.text) # LEADER_LEN THEN DecodeFails("RecordLeaderInvalid", lead.text)
    ELSE DecodeBase(lead.text, m, DecodeContext(lead.text, self_utf8, a),
                    PyInt(PySlice(m, 12, 17)))

\* Record.decode_marc(m, **a) on a record with leader ldr0, no fields and
\* self.force_utf8 = self_utf8: [err, leader, fields, charsets], the exception
\* raised, the record's leader and fields after the call, and the decoders
\* called on each field.
decode_marc(ldr0, self_utf8, m, a) ==
    DecodeLeader(ldr0, self_utf8, m, a, Decode(PySlice(m, 0, LEADER_LEN), "ascii", "strict"))

\* the arguments __init__ passes to decode_marc
DecodeArgs(to_unicode, force_arg, utf8_handling, encoding) ==
    [to_unicode |-> to_unicode, force_utf8 |-> force_arg,
     utf8_handling |-> utf8_handling, encoding |-> encoding]

(***************************************************************************)
(* The field list: add_field, add_grouped_field, add_ordered_field,        *)
(* remove_field.                                                           *)
(***************************************************************************)
\* the element put after the one at the index, not before it
ListInsert_AfterIndex(s, i, x) == SubSeq(s, 1, i + 1) \o <<x>> \o SubSeq(s, i + 2, Len(s))

\* list.insert(i, x) for 0 <= i <= len
ListInsert(s, i, x) == SubSeq(s, 1, i) \o <<x>> \o SubSeq(s, i + 1, Len(s))

\* SortKey with the mode ignored: the first digit is compared in both modes
SortKey_FirstDigitOnly(tag, mode) == DigitsValue(<<tag[1]>>)

\* the key _sort_fields compares: int(tag[0]) when grouped, int(tag) when ordered
SortKey(tag, mode) ==
    IF mode = "grouped" THEN DigitsValue(<<tag[1]>>) ELSE DigitsValue(tag)

\* The loop of _sort_fields from its i-th iteration on (i counts from 1, as
\* in the code after i += 1).  Every branch that changes the list breaks, so
\* the list the loop iterates is the list before the call.
RECURSIVE SortLoop(_, _, _, _)
SortLoop(flds, field, mode, i) ==
    IF i > Len(flds) THEN flds
    ELSE IF ~isdigit(Obj(flds[i]).tag) THEN ListInsert(flds, i - 1, field)
    ELSE IF SortKey(Obj(flds[i]).tag, mode) > SortKey(Obj(field).tag, mode)
         THEN ListInsert(flds, i - 1, field)
    ELSE IF Len(flds) = i THEN Append(flds, field)
    ELSE SortLoop(flds, field, mode, i + 1)

\* Record._sort_fields(field, mode)
_sort_fields(flds, field, mode) == SortLoop(flds, field, mode, 1)

\* one iteration of the loop of add_grouped_field / add_ordered_field
AddSorted(flds, f, mode) ==
    IF Len(flds) = 0 \/ ~isdigit(Obj(f).tag) THEN Append(flds, f)
    ELSE _sort_fields(flds, f, mode)

\* add_grouped_field(*args) / add_ordered_field(*args)
RECURSIVE AddSortedAll(_, _, _)
AddSortedAll(flds, args, mode) ==
    IF Len(args) = 0 THEN flds
    ELSE AddSortedAll(AddSorted(flds, args[1], mode), Tail(args), mode)

\* list.remove(x): the list without the first occurrence of x
RECURSIVE ListRemove(_, _)
ListRemove(s, x) ==
    IF Len(s) = 0 THEN s
    ELSE IF s[1] = x THEN Tail(s)
    ELSE <<s[1]>> \o ListRemove(Tail(s), x)

InList(s, x) == \E i \in 1..Len(s) : s[i] = x

\* remove_field(*args): [err, fields]; the fields removed before a failing
\* argument stay removed.
RECURSIVE RemoveAll(_, _)
RemoveAll(flds, args) ==
    IF Len(args) = 0 THEN [err |-> "none", fields |-> flds]
    ELSE IF ~InList(flds, args[1]) THEN [err |-> "FieldNotFound", fields |-> flds]
    ELSE RemoveAll(ListRemove(flds, args[1]), Tail(args))

(***************************************************************************)
(* Record.__init__ without data.                                           *)
(***************************************************************************)
\* Leader(leader[0:10] + "22" + leader[12:20] + "4500"), and byte 9 set to
\* "a" when force_utf8
InitLeader(arg, utf8) ==
    LET l == PySlice(arg, 0, 10) \o <<50, 50>> \o PySlice(arg, 12, 20) \o <<52, 53, 48, 48>>
    IN  IF utf8 THEN PySlice(l, 0, 9) \o <<97>> \o PyFrom(l, 10) ELSE l

\* The bytes an operation returned are kept in pieces of ChunkLen bytes.
ChunkLen == 1000

Pack(s) ==
    [k \in 1..((Len(s) + ChunkLen - 1) \div ChunkLen) |->
        SubSeq(s, ChunkLen * (k - 1) + 1, Min(ChunkLen * k, Len(s)))]

Unpack(p) ==
    IF Len(p) = 0 THEN <<>>
    ELSE [i \in 1..(ChunkLen * (Len(p) - 1) + Len(p[Len(p)])) |->
            p[((i - 1) \div ChunkLen) + 1][((i - 1) % ChunkLen) + 1]]

\* what the last operation returned or raised
NoResult ==
    [err |-> "none", bytes |-> <<>>, leader |-> <<>>, fields |-> <<>>,
     charsets |-> <<>>, args |-> DecodeArgs(TRUE, FALSE, "strict", "iso8859-1")]

(***************************************************************************)
(* Inputs.                                                                 *)
(***************************************************************************)
\* the most fields a record holds
MaxFields == 3

\* the most arguments of one call of add_*_field / remove_field
MaxArgs == 2

\* leader arguments: the default (24 spaces) and "01234cam a2200025 a 4500"
LeaderArgs ==
    { Fill(24, 32),
      <<48, 49, 50, 51, 52, 99, 97, 109, 32, 97, 50, 50,
        48, 48, 48, 50, 53, 32, 97, 32, 52, 53, 48, 48>> }

\* the fields of the field-list specification
FieldUniverse == {"f001", "f008", "f100", "f110", "f245", "f650", "fab"}

ArgLists(U) == UNION { [1..n -> U] : n \in 1..MaxArgs }

(***************************************************************************)
(* The field list: specification SpecFields.                               *)
(***************************************************************************)
InitFields ==
    /\ leader = InitLeader(Fill(24, 32), FALSE)
    /\ fields = <<>>
    /\ force_utf8 = FALSE
    /\ marc = <<>>
    /\ edits = 0
    /\ result = NoResult
    /\ op = "init"

\* Record.add_field(*args)
add_field(args) ==
    /\ Len(fields) + Len(args) <= MaxFields
    /\ fields' = fields \o args
    /\ op' = "add_field"
    /\ result' = NoResult
    /\ UNCHANGED <<leader, force_utf8, marc, edits>>

\* Record.add_grouped_field(*args)
add_grouped_field(args) ==
    /\ Len(fields) + Len(args) <= MaxFields
    /\ fields' = AddSortedAll(fields, args, "grouped")
    /\ op' = "add_grouped_field"
    /\ result' = NoResult
    /\ UNCHANGED <<leader, force_utf8, marc, edits>>

\* Record.add_ordered_field(*args)
add_ordered_field(args) ==
    /\ Len(fields) + Len(args) <= MaxFields
    /\ fields' = AddSortedAll(fields, args, "ordered")
    /\ op' = "add_ordered_field"
    /\ result' = NoResult
    /\ UNCHANGED <<leader, force_utf8, marc, edits>>

\* Record.remove_field(*args)
remove_field(args) ==
    LET r == RemoveAll(fields, args)
    IN  /\ fields' = r.fields
        /\ op' = "remove_field"
        /\ result' = [NoResult EXCEPT !.err = r.err]
        /\ UNCHANGED <<leader, force_utf8, marc, edits>>

NextFields ==
    \E args \in ArgLists(FieldUniverse) :
        \/ add_field(args)
        \/ add_grouped_field(args)
        \/ add_ordered_field(args)
        \/ remove_field(args)

SpecFields == InitFields /\ [][NextFields]_vars

(***************************************************************************)
(* Ordering policies.                                                      *)
(***************************************************************************)
\* The fields are ordered by a key of the tag: the all-digit tags come first,
\* in non-decreasing order of the key, and the non-digit tags follow.
OrderedByNumericTag(flds) ==
    \A i, j \in 1..Len(flds) :
        (i < j /\ isdigit(Obj(flds[j]).tag)) =>
            /\ isdigit(Obj(flds[i]).tag)
            /\ DigitsValue(Obj(flds[i]).tag) <= DigitsValue(Obj(flds[j]).tag)

OrderedByFirstDigit(flds) ==
    \A i, j \in 1..Len(flds) :
        (i < j /\ isdigit(Obj(flds[j]).tag)) =>
            /\ isdigit(Obj(flds[i]).tag)
            /\ Obj(flds[i]).tag[1] <= Obj(flds[j]).tag[1]

\* C4: add_ordered_field on a record ordered by numeric tag leaves it ordered
\* by numeric tag, and add_grouped_field on a record ordered by first digit
\* leaves it ordered by first digit (so every sequence of insertions of one
\* policy from the empty record yields a record in that policy's order).
C4_OrderingPreserved ==
    [][ /\ (op' = "add_ordered_field" /\ OrderedByNumericTag(fields))
            => OrderedByNumericTag(fields')
        /\ (op' = "add_grouped_field" /\ OrderedByFirstDigit(fields))
            => OrderedByFirstDigit(fields') ]_vars

\* an ordered insertion produced 100, 245, ab
C4_Witness ==
    /\ op = "add_ordered_field"
    /\ fields = <<"f100", "f245", "fab">>
    /\ OrderedByNumericTag(fields)

(***************************************************************************)
(* The encoder: specification SpecEncode.                                  *)
(***************************************************************************)
\* the most fields of a record that is encoded
MaxEncFields == 2

EncodeUniverse == {"f001", "f245", "f650", "fab", "f003_9998", "f005_9999"}

\* the fields of the specification of large records
LargeUniverse == EncodeUniverse \cup {"f006_99990"}

InitEncode ==
    \E arg \in LeaderArgs, utf8 \in BOOLEAN :
        /\ leader = InitLeader(arg, utf8)
        /\ fields = <<>>
        /\ force_utf8 = utf8
        /\ marc = <<>>
        /\ edits = 0
        /\ result = NoResult
        /\ op = "init"

\* Record.as_marc(): the record is left as it is, the bytes are returned
AsMarc ==
    LET r == as_marc(leader, fields, force_utf8)
    IN  /\ op' = "as_marc"
        /\ result' = [NoResult EXCEPT !.err = r.err, !.bytes = Pack(r.bytes)]
        /\ UNCHANGED <<leader, fields, force_utf8, marc, edits>>

\* add_field of one field of the encoder's universe
EncAddField == \E f \in EncodeUniverse : Len(fields) < MaxEncFields /\ add_field(<<f>>)

\* Record(data=<the bytes as_marc returned>, force_utf8=self.force_utf8): a
\* new Record, which __init__ passes to decode_marc with its default arguments
RecordFromData ==
    /\ op = "as_marc"
    /\ result.err = "none"
    /\ LET r == decode_marc(InitLeader(Fill(LEADER_LEN, 32), FALSE), force_utf8,
                            Unpack(result.bytes),
                            DecodeArgs(TRUE, force_utf8, "strict", "iso8859-1"))
       IN  result' = [result EXCEPT !.err = r.err, !.leader = r.leader,
                                    !.fields = r.fields, !.charsets = r.charsets]
    /\ op' = "Record"
    /\ UNCHANGED <<leader, fields, force_utf8, marc, edits>>

NextEncode == EncAddField \/ AsMarc \/ RecordFromData

SpecEncode == InitEncode /\ [][NextEncode]_vars

(***************************************************************************)
(* The encoder on records of more than 99999 bytes: specification          *)
(* SpecLarge.                                                              *)
(***************************************************************************)
\* the most fields of a large record
MaxLargeFields == 2

\* add_field of one field of the universe of large records
LargeAddField == \E f \in LargeUniverse : Len(fields) < MaxLargeFields /\ add_field(<<f>>)

NextLarge == LargeAddField \/ AsMarc

SpecLarge == InitEncode /\ [][NextLarge]_vars


(***************************************************************************)
(* Claims about the encoder.                                               *)
(***************************************************************************)
\* as_marc returned bytes
Encoded == op = "as_marc" /\ result.err = "none"

\* the bytes the last operation returned
Out == Unpack(result.bytes)

\* the decimal number written in out[a:b], -1 when it is not all digits
Decimal(out, a, b) ==
    IF isdigit(PySlice(out, a, b)) THEN DigitsValue(PySlice(out, a, b)) ELSE -1

\* the offset of the byte after the directory's terminator, the first
\* END_OF_FIELD of the output (no tag of the universe holds one)
FirstFieldOffset(out) ==
    CHOOSE i \in (LEADER_LEN + 1)..Len(out) :
        /\ out[i] = END_OF_FIELD
        /\ \A j \in (LEADER_LEN + 1)..(i - 1) : out[j] # END_OF_FIELD

\* C1: in the output of as_marc bytes 0..5 are the total length of the output
\* in decimal and bytes 12..17 are the offset of the first field byte.
C1_LengthSelfConsistent ==
    Encoded =>
        /\ Decimal(Out, 0, 5) = Len(Out)
        /\ Decimal(Out, 12, 17) = FirstFieldOffset(Out)

\* the serialized length of the k-th field and the offset of its first byte
SerializedLen(k) == Len(FieldAsMarc(Obj(fields[k]), AsMarcEncoding(leader, force_utf8)).bytes)

RECURSIVE SerializedOffset(_)
SerializedOffset(k) == IF k = 1 THEN 0 ELSE SerializedOffset(k - 1) + SerializedLen(k - 1)

\* the k-th 12-byte slot after the leader
DirectoryEntry(out, k) ==
    PySlice(out, LEADER_LEN + DIRECTORY_ENTRY_LEN * (k - 1), LEADER_LEN + DIRECTORY_ENTRY_LEN * k)

\* C2: the directory of the output has one 12-byte entry per field, in field
\* order, followed by its terminator; each entry holds the field's serialized
\* length and the offsets start at 0 and are contiguous.
C2_DirectoryComplete ==
    Encoded =>
        /\ \A k \in 1..Len(fields) :
              LET entry == DirectoryEntry(Out, k)
              IN  /\ Decimal(entry, 3, 7) = SerializedLen(k)
                  /\ Decimal(entry, 7, 12) = SerializedOffset(k)
        /\ Out[LEADER_LEN + DIRECTORY_ENTRY_LEN * Len(fields) + 1] = END_OF_FIELD

\* the record's length as as_marc computes it
ComputedRecordLength ==
    LEADER_LEN + DIRECTORY_ENTRY_LEN * Len(fields) + 1
        + SerializedOffset(Len(fields) + 1) + 1

\* a length that does not fit its fixed-width decimal field
TooLarge ==
    \/ ComputedRecordLength > 99999
    \/ \E k \in 1..Len(fields) : SerializedLen(k) > 9999

\* C5: as_marc of a record whose length exceeds 99999 bytes, or with a field
\* of more than 9999 bytes, fails with RecordTooLarge and returns no bytes.
C5_OverflowFails ==
    (op = "as_marc" /\ TooLarge) =>
        /\ result.err = "RecordTooLarge"
        /\ result.bytes = <<>>

\* the record whose only field is 001 "ocm12345" was encoded
C10_Witness == Encoded /\ fields = <<"f001">>

\* C10 as stated: the output has 55 bytes and starts with "00055"
C10_Original ==
    (op = "as_marc" /\ fields = <<"f001">>) =>
        /\ Len(Out) = 55
        /\ PySlice(Out, 0, 5) = <<48, 48, 48, 53, 53>>
        /\ PySlice(Out, 12, 17) = <<48, 48, 48, 51, 55>>

\* C10, amended: as_marc of the record whose only field is 001 "ocm12345"
\* returns 47 bytes, bytes 0..5 are "00047" and bytes 12..17 are "00037".
C10_MinimalRecord ==
    (op = "as_marc" /\ fields = <<"f001">>) =>
        /\ result.err = "none"
        /\ Len(Out) = 47
        /\ PySlice(Out, 0, 5) = <<48, 48, 48, 52, 55>>
        /\ PySlice(Out, 12, 17) = <<48, 48, 48, 51, 55>>

(***************************************************************************)
(* The round trip.                                                         *)
(***************************************************************************)
\* a Record was made of the bytes as_marc returned
Decoded == op = "Record"

\* A record as decoding well-formed MARC builds it: at least one field, tags
\* of three characters, and lengths that fit the directory and the leader.
BuiltFromWellFormed ==
    /\ Len(fields) > 0
    /\ \A k \in 1..Len(fields) : Len(Obj(fields[k]).tag) = 3
    /\ ~TooLarge

\* the record's character coding scheme is UTF-8
Utf8Record == leader[10] = 97 \/ force_utf8

\* every subfield value of the record is ASCII
AsciiValues ==
    \A k \in 1..Len(fields) :
        \A n \in 1..Len(Obj(fields[k]).subfields) : IsAscii(Obj(fields[k]).subfields[n][2])

\* the decoded record equals the encoded one: the leader apart from the
\* length and the base address, and the fields in order with their tags,
\* indicators, subfields and data
SameRecord ==
    /\ result.err = "none"
    /\ Len(result.leader) = LEADER_LEN
    /\ PySlice(result.leader, 5, 12) = PySlice(leader, 5, 12)
    /\ PyFrom(result.leader, 17) = PyFrom(leader, 17)
    /\ result.fields = Objs(fields)

\* a UTF-8 record with a subfield value that is not ASCII came back equal
C3_Witness ==
    /\ Decoded
    /\ fields = <<"f245", "f650">>
    /\ Utf8Record
    /\ SameRecord

\* C3 as stated: decoding the bytes as_marc returned for a record built from
\* well-formed MARC yields an equal record.
C3_Original == (Decoded /\ BuiltFromWellFormed) => SameRecord

\* C3, amended: decoding the bytes as_marc returned for a record built from
\* well-formed MARC yields a record with the same leader (apart from length
\* and base address) and the same fields, when the record is UTF-8 or all its
\* subfield values are ASCII.
C3_RoundTrip ==
    (Decoded /\ BuiltFromWellFormed /\ (Utf8Record \/ AsciiValues)) => SameRecord

(***************************************************************************)
(* The decoder on buffers received: specification SpecDecode.              *)
(***************************************************************************)
\* the most bytes of a buffer that were damaged on its way
MaxEdits == 1

\* the directory entries of the raw fields raw[k..], raw[k] = <<tag, body>>,
\* the first of them at offset
RECURSIVE RawDirectory(_, _, _)
RawDirectory(raw, k, offset) ==
    IF k > Len(raw) THEN <<>>
    ELSE raw[k][1] \o FormatD(4, Len(raw[k][2]) + 1) \o FormatD(5, offset)
            \o RawDirectory(raw, k + 1, offset + Len(raw[k][2]) + 1)

RECURSIVE RawFields(_, _)
RawFields(raw, k) ==
    IF k > Len(raw) THEN <<>>
    ELSE raw[k][2] \o <<END_OF_FIELD>> \o RawFields(raw, k + 1)

\* a record in transmission format: leader "LLLLLnam c22BBBBB a 4500" with
\* the coding scheme c, the directory and the fields
RawMarc(scheme, raw) ==
    LET directory    == RawDirectory(raw, 1, 0) \o <<END_OF_FIELD>>
        fieldbytes   == RawFields(raw, 1) \o <<END_OF_RECORD>>
        base_address == LEADER_LEN + Len(directory)
    IN  FormatD(5, base_address + Len(fieldbytes)) \o <<110, 97, 109, 32, scheme, 50, 50>>
            \o FormatD(5, base_address) \o <<32, 97, 32, 52, 53, 48, 48>>
            \o directory \o fieldbytes

\* 001 ocm12345, 245 10 $a Hello
PlainBuffer ==
    RawMarc(32, << <<Tag(0, 0, 1), Ocm12345>>,
                   <<Tag(2, 4, 5), <<49, 48, 31, 97, 72, 101, 108, 108, 111>>>> >>)

\* data fields with no, one, two and three bytes before the first subfield
IndicatorBuffer ==
    RawMarc(32, << <<Tag(1, 0, 0), <<31, 97, 88>>>>,
                   <<Tag(1, 1, 0), <<49, 31, 97, 89>>>>,
                   <<Tag(2, 4, 5), <<49, 48, 31, 97, 90>>>>,
                   <<Tag(6, 5, 0), <<49, 50, 51, 31, 97, 87>>>> >>)

\* the bytes C3 A1 (U+00E1 in UTF-8) as the data of a control field and as
\* the value of a subfield
AccentBuffer ==
    RawMarc(32, << <<Tag(0, 0, 1), <<195, 161>>>>,
                   <<Tag(6, 5, 0), <<32, 48, 31, 97, 195, 161>>>> >>)

\* a MARC-8 diacritic (E1 61), a subfield whose code is not ASCII (C3 A1) and
\* a subfield that is a code alone
Marc8Buffer ==
    RawMarc(32, << <<Tag(6, 5, 0), <<32, 48, 31, 97, 225, 97, 31, 195, 161, 118, 31, 98>>>> >>)

\* a record without fields
EmptyBuffer == RawMarc(32, <<>>)

\* the first bytes of a record, one of them not ASCII
Fragment == <<48, 48, 128>>

BaseBuffers ==
    {PlainBuffer, IndicatorBuffer, AccentBuffer, Marc8Buffer, EmptyBuffer, Fragment}

\* the bytes written in place of one byte: 0x80, "a", "-", "0" and "9"
DamageBytes == {128, 97, 45, 48, 57}

\* the indices in m (from 1) of: the first byte of the length, the coding
\* scheme, the first and the last byte of the base address, the first byte of
\* the first directory entry, of its length and of its offset, and the last
\* byte before the last field's terminator
DamageIndices(m) == {1, 10, 13, 17, 25, 28, 32, Len(m) - 2}

\* the lengths a buffer is cut to
CutLengths(m) == {10, 30, Len(m) - 1}

\* the arguments decode_marc is called with: the defaults, force_utf8=True,
\* to_unicode=False, and encoding="utf-8"
DecodeOptions ==
    { DecodeArgs(TRUE, FALSE, "strict", "iso8859-1"),
      DecodeArgs(TRUE, TRUE, "strict", "iso8859-1"),
      DecodeArgs(FALSE, FALSE, "strict", "iso8859-1"),
      DecodeArgs(TRUE, FALSE, "strict", "utf-8") }

\* Record(force_utf8=utf8), and a buffer to decode
InitDecode ==
    \E utf8 \in BOOLEAN, m \in BaseBuffers :
        /\ leader = InitLeader(Fill(LEADER_LEN, 32), utf8)
        /\ fields = <<>>
        /\ force_utf8 = utf8
        /\ marc = m
        /\ edits = 0
        /\ result = NoResult
        /\ op = "init"

\* one byte of the buffer is replaced
Corrupt ==
    \E p \in DamageIndices(marc), v \in DamageBytes :
        /\ op = "init"
        /\ edits < MaxEdits
        /\ p >= 1 /\ p <= Len(marc)
        /\ marc[p] # v
        /\ marc' = [marc EXCEPT ![p] = v]
        /\ edits' = edits + 1
        /\ UNCHANGED <<leader, fields, force_utf8, result, op>>

\* the end of the buffer is lost
Truncate ==
    \E n \in CutLengths(marc) :
        /\ op = "init"
        /\ edits < MaxEdits
        /\ n >= 1 /\ n < Len(marc)
        /\ marc' = SubSeq(marc, 1, n)
        /\ edits' = edits + 1
        /\ UNCHANGED <<leader, fields, force_utf8, result, op>>

\* self.decode_marc(marc, **a) on the new record: the leader and the fields
\* added before an exception stay in the record
DecodeMarc ==
    \E a \in DecodeOptions :
        /\ op = "init"
        /\ LET r == decode_marc(leader, force_utf8, marc, a)
           IN  /\ leader' = r.leader
               /\ fields' = r.fields
               /\ result' = [NoResult EXCEPT !.err = r.err, !.charsets = r.charsets,
                                             !.args = a]
        /\ op' = "decode_marc"
        /\ UNCHANGED <<force_utf8, marc, edits>>

NextDecode == Corrupt \/ Truncate \/ DecodeMarc

SpecDecode == InitDecode /\ [][NextDecode]_vars

(***************************************************************************)
(* Claims about the decoder.                                               *)
(***************************************************************************)
\* decode_marc was called on the buffer marc
DecodeCalled == op = "decode_marc"

\* s is a decimal number, with or without a minus sign
Readable(s) == isdigit(s) \/ (Len(s) > 1 /\ s[1] = 45 /\ isdigit(Tail(s)))

\* the number a readable s writes
Number(s) == IF isdigit(s) THEN DigitsValue(s) ELSE 0 - DigitsValue(Tail(s))

\* the base address and the declared length of a buffer of 24 bytes or more
BaseOf(m) == Number(PySlice(m, 12, 17))

DeclaredOf(m) == Number(PySlice(m, 0, 5))

\* the number of bytes from the leader to the directory's terminator
DirectoryLen(m) == Len(PySlice(m, LEADER_LEN, BaseOf(m) - 1))

\* The first structural check, in the order of the claim, whose condition
\* holds of the buffer m, "none" when no condition holds.  A condition on a
\* number that is not readable does not hold.
FirstCheck(m) ==
    IF Len(m) < LEADER_LEN THEN "RecordLeaderInvalid"
    ELSE IF Readable(PySlice(m, 12, 17)) /\ BaseOf(m) <= 0 THEN "BaseAddressNotFound"
    ELSE IF Readable(PySlice(m, 12, 17)) /\ BaseOf(m) >= Len(m) THEN "BaseAddressInvalid"
    ELSE IF Readable(PySlice(m, 0, 5)) /\ Len(m) < DeclaredOf(m) THEN "TruncatedRecord"
    ELSE IF Readable(PySlice(m, 12, 17)) /\ DirectoryLen(m) % DIRECTORY_ENTRY_LEN # 0
         THEN "RecordDirectoryInvalid"
    ELSE IF Readable(PySlice(m, 12, 17)) /\ DirectoryLen(m) = 0 THEN "NoFieldsFound"
    ELSE "none"

\* the error kinds of the structural checks
StructuralErrors ==
    {"RecordLeaderInvalid", "BaseAddressNotFound", "BaseAddressInvalid",
     "TruncatedRecord", "RecordDirectoryInvalid", "NoFieldsFound"}

\* C6: decode_marc fails with the first structural check that applies, in the
\* order leader shorter than 24 bytes, base address <= 0, base address >=
\* len(buffer), len(buffer) < declared length, directory length not a
\* multiple of 12, no directory entry; and with none of them when none applies.
C6_FirstCheckFails ==
    DecodeCalled =>
        IF FirstCheck(marc) = "none"
        THEN result.err \notin StructuralErrors
        ELSE result.err = FirstCheck(marc)

\* C7: decode_marc populates the record or fails with one of the listed
\* error kinds, whatever the bytes of the buffer.
C7_TypedFailure == DecodeCalled => result.err \in StructuralErrors \cup {"none"}

\* the bytes of the k-th field of m as its directory entry gives them, <<>>
\* when the entry's length or offset is not readable
RawFieldBytes(m, k) ==
    LET entry == PySlice(m, LEADER_LEN + DIRECTORY_ENTRY_LEN * (k - 1),
                         LEADER_LEN + DIRECTORY_ENTRY_LEN * k)
        start == BaseOf(m) + Number(PySlice(entry, 7, 12))
    IN  IF Readable(PySlice(entry, 3, 7)) /\ Readable(PySlice(entry, 7, 12))
        THEN PySlice(m, start, start + Number(PySlice(entry, 3, 7)) - 1)
        ELSE <<>>

\* the bytes of a field before its first SUBFIELD_INDICATOR
RECURSIVE BeforeSubfields(_)
BeforeSubfields(data) ==
    IF Len(data) = 0 \/ data[1] = SUBFIELD_INDICATOR THEN <<>>
    ELSE <<data[1]>> \o BeforeSubfields(Tail(data))

\* the indicators the repair policy gives for the bytes pre
RepairedIndicators(pre) ==
    << IF Len(pre) >= 1 THEN <<pre[1]>> ELSE <<32>>,
       IF Len(pre) >= 2 THEN <<pre[2]>> ELSE <<32>> >>

\* the field serializes as two indicator bytes and then its subfields
TwoIndicatorBytes(f) ==
    LET b == FieldAsMarc(f, "utf-8").bytes
    IN  /\ Len(b) >= 3
        /\ b[1] = f.indicators[1][1]
        /\ b[2] = f.indicators[2][1]
        /\ b[3] \in {SUBFIELD_INDICATOR, END_OF_FIELD}

\* the buffer with 0, 1, 2 and 3 indicator bytes was decoded
C8_Witness ==
    /\ DecodeCalled
    /\ marc = IndicatorBuffer
    /\ result.err = "none"
    /\ Len(fields) = 4
    /\ fields[1].indicators = <<<<32>>, <<32>>>>
    /\ fields[2].indicators = <<<<49>>, <<32>>>>
    /\ fields[3].indicators = <<<<49>>, <<48>>>>
    /\ fields[4].indicators = <<<<49>>, <<50>>>>

\* C8: every data field decode_marc adds has two one-character indicators,
\* given by the bytes before its first subfield: none -> two spaces, one byte
\* b -> (b, space), two or more -> the first two; it serializes with exactly
\* two indicator bytes; and the buffer with 0, 1, 2 and 3 such bytes decodes
\* without an error.
C8_IndicatorRepair ==
    DecodeCalled =>
        /\ marc = IndicatorBuffer => (result.err = "none" /\ Len(fields) = 4)
        /\ \A k \in 1..Len(fields) :
              ~is_control_field(fields[k]) =>
                  /\ fields[k].indicators
                        = RepairedIndicators(BeforeSubfields(RawFieldBytes(marc, k)))
                  /\ Len(fields[k].indicators) = 2
                  /\ Len(fields[k].indicators[1]) = 1
                  /\ Len(fields[k].indicators[2]) = 1
                  /\ TwoIndicatorBytes(fields[k])

\* the record is to be read as UTF-8: leader byte 9 is "a", or force_utf8 was
\* set in the constructor or in the call
ReadAsUtf8 ==
    \/ Len(marc) >= 10 /\ marc[10] = 97
    \/ force_utf8
    \/ result.args.force_utf8

\* the decoders of the default encoding: iso8859-1 stands for MARC-8
DefaultDecoders ==
    IF result.args.encoding = "iso8859-1" THEN {"iso8859-1", "marc8"}
    ELSE {result.args.encoding}

\* C9: control field data and subfield values of a record are decoded with
\* one encoding: UTF-8 when leader byte 9 is "a" or force_utf8 was set, as
\* constructor option or as argument of decode_marc, and the default
\* encoding otherwise.
C9_OneEncoding ==
    (DecodeCalled /\ result.args.to_unicode) =>
        \A k \in 1..Len(result.charsets) :
            result.charsets[k] \subseteq (IF ReadAsUtf8 THEN {"utf-8"} ELSE DefaultDecoders)

(***************************************************************************)
(* Claims about the field list.                                            *)
(***************************************************************************)
\* the key of a policy: the first digit when grouped, the number when ordered
PolicyKey(tag, mode) == IF mode = "grouped" THEN tag[1] - 48 ELSE DigitsValue(tag)

\* the fields before which f may not stay: a non-digit tag, or a key
\* strictly greater than the key of f
Stops(flds, f, mode) ==
    { i \in 1..Len(flds) :
        \/ ~isdigit(Obj(flds[i]).tag)
        \/ PolicyKey(Obj(flds[i]).tag, mode) > PolicyKey(Obj(f).tag, mode) }

\* the index f takes in the list: that of the first such field, the end
\* when there is none, when the list is empty or when f has a non-digit tag
PlaceOf(flds, f, mode) ==
    IF Len(flds) = 0 \/ ~isdigit(Obj(f).tag) \/ Stops(flds, f, mode) = {}
    THEN Len(flds) + 1
    ELSE CHOOSE i \in Stops(flds, f, mode) : \A j \in Stops(flds, f, mode) : i <= j

\* flds with f put once at its place, the other fields in their order
Placed(flds, f, mode) ==
    [k \in 1..(Len(flds) + 1) |->
        IF k < PlaceOf(flds, f, mode) THEN flds[k]
        ELSE IF k = PlaceOf(flds, f, mode) THEN f
        ELSE flds[k - 1]]

\* a grouped insertion put 110 between 100 and the non-digit tag
C11_Witness ==
    /\ op = "add_grouped_field"
    /\ fields = <<"f100", "f110", "fab">>
    /\ PlaceOf(<<"f100", "fab">>, "f110", "grouped") = 2

\* C11: add_grouped_field(f) and add_ordered_field(f) put f once,
\* immediately before the first existing field whose tag is non-digit or
\* whose key is strictly greater, and at the end when there is no such field,
\* when the record is empty or when the tag of f is non-digit; the existing
\* fields keep their order and the list grows by one.
C11_InsertionPosition ==
    [][ op' \in {"add_grouped_field", "add_ordered_field"} =>
          \A f \in FieldUniverse :
              /\ (op' = "add_grouped_field" /\ add_grouped_field(<<f>>)) =>
                    (fields' = Placed(fields, f, "grouped")
                        /\ Len(fields') = Len(fields) + 1)
              /\ (op' = "add_ordered_field" /\ add_ordered_field(<<f>>)) =>
                    (fields' = Placed(fields, f, "ordered")
                        /\ Len(fields') = Len(fields) + 1) ]_vars

\* f is in the list
Holds(flds, f) == \E i \in 1..Len(flds) : flds[i] = f

\* the list without the first occurrence of f, which it holds
WithoutFirst(flds, f) ==
    LET i == CHOOSE k \in 1..Len(flds) : flds[k] = f /\ \A j \in 1..(k - 1) : flds[j] # f
    IN  SubSeq(flds, 1, i - 1) \o SubSeq(flds, i + 1, Len(flds))

\* C12: remove_field(f) fails with FieldNotFound exactly when f is not in
\* the list and otherwise removes the first occurrence of f and nothing else;
\* a call of remove_field that fails with FieldNotFound, with one field or
\* with several, leaves the list as it was before the call.
C12_RemoveFieldOutcome ==
    [][ op' = "remove_field" =>
          /\ \A f \in FieldUniverse :
                remove_field(<<f>>) =>
                    /\ result'.err = "FieldNotFound" <=> ~Holds(fields, f)
                    /\ Holds(fields, f) => fields' = WithoutFirst(fields, f)
          /\ result'.err = "FieldNotFound" => fields' = fields ]_vars

(***************************************************************************)
(* as_marc and the record.                                                 *)
(***************************************************************************)
\* C13: as_marc leaves the record's leader and field list as they were; the
\* bytes it returns hold the record's leader at positions 5..12 and 17..24;
\* and a second call with no change in between returns the same bytes.
C13_AsMarcReadOnly ==
    [][ op' = "as_marc" =>
          /\ leader' = leader
          /\ fields' = fields
          /\ result'.err = "none" =>
                /\ PySlice(Unpack(result'.bytes), 5, 12) = PySlice(leader, 5, 12)
                /\ PySlice(Unpack(result'.bytes), 17, 24) = PySlice(leader, 17, 24)
          /\ op = "as_marc" => result'.bytes = result.bytes ]_vars

====
